---- MODULE Spec2Model ----
(***************************************************************************)
(* RED3bot.py: a single asyncio task polls the TronGrid transaction page   *)
(* of one account, remembers the identifiers it has processed in seen_tx   *)
(* and forwards TRX / USDT transfers above a threshold to a Telegram chat. *)
(*                                                                         *)
(* The model follows main() and handle_tx() from one suspension point      *)
(* (await) to the next.  The remote services are the environment: every    *)
(* awaited call either returns a value drawn from a small set or raises.   *)
(***************************************************************************)
EXTENDS Integers, Sequences, FiniteSets

\* ------------------------------------------------------------------ bounds
\* steady-state iterations of `while True` that are explored
MaxPolls == 2
\* longest page a fetch returns (the provider's limit is 20)
MaxPage == 2

\* --------------------------------------------------------------- constants
\* MIN_TRX / MIN_USDT: notification thresholds in whole coins (default 1.0)
MIN_TRX == 1
MIN_USDT == 1
\* minor units per coin: `int(...) / 1_000_000`
SCALE == 1000000
\* pauses of the driver loop
SLEEP_OK == 15
\* variant of SLEEP_ERR: the backoff is as long as the interval
SleepErrShort == SLEEP_OK
SLEEP_ERR == 30

\* Strings that the code inspects character by character (str.lower) are
\* tuples of one-character strings.
USDT_HEX == <<"a", "6", "1", "4", "f", "8", "0", "3", "b", "6", "f", "d", "7", "8", "0", "9", "8", "6", "a", "4", "2", "c", "7", "8", "e", "c", "9", "c", "7", "f", "7", "7", "e", "6", "d", "e", "d", "1", "3", "c">>
\* base58.b58decode_check(TRON_ADDR).hex() of the configured account
MY_HEX == <<"4", "1", "5", "c", "b", "d", "d", "8", "6", "a", "2", "f", "a", "8", "d", "c", "4", "b", "d", "d", "d", "8", "a", "8", "f", "6", "9", "d", "b", "f", "8", "e", "5", "b", "3", "a", "c", "3", "f", "7", "e", "5">>
\* some other account
OTHER_HEX == <<"4", "1", "d", "0", "f", "4", "a", "1", "c", "5", "b", "2", "e", "3", "9", "6", "8", "7", "7", "5", "a", "6", "b", "4", "c", "3", "d", "2", "e", "1", "f", "0", "0", "9", "1", "8", "2", "7", "3", "6", "4", "5">>

UpperOf == [c \in {"a", "b", "c", "d", "e", "f"} |->
              CASE c = "a" -> "A" [] c = "b" -> "B" [] c = "c" -> "C"
                [] c = "d" -> "D" [] c = "e" -> "E" [] c = "f" -> "F"]
LowerOf == [c \in {"A", "B", "C", "D", "E", "F"} |->
              CASE c = "A" -> "a" [] c = "B" -> "b" [] c = "C" -> "c"
                [] c = "D" -> "d" [] c = "E" -> "e" [] c = "F" -> "f"]
\* str.upper(): used only to build mixed-case inputs
Upper(s) == [i \in DOMAIN s |-> IF s[i] \in DOMAIN UpperOf THEN UpperOf[s[i]] ELSE s[i]]
\* str.lower()
Lower(s) == [i \in DOMAIN s |-> IF s[i] \in DOMAIN LowerOf THEN LowerOf[s[i]] ELSE s[i]]

\* dict.get(key, default)
Get(d, key, default) == IF key \in DOMAIN d THEN d[key] ELSE default


\* ----------------------------------------------------------------- inputs
\* Transaction identifiers the provider can report
TxIds == {"T1", "T2"}

\* raw_data.contract[0] of a transaction
Contract(type, value) == [type |-> type, parameter |-> [value |-> value]]

\* a dict without any key
EmptyDict == <<>>

\* parameter.value of a native transfer (amounts are integers of minor units)
V_in_big == [amount |-> 2507000, to_address |-> MY_HEX]
V_out_min == [amount |-> 1000000, to_address |-> OTHER_HEX]
V_in_small == [amount |-> 999999, to_address |-> MY_HEX]
V_upper == [amount |-> 1000000, to_address |-> Upper(MY_HEX)]

\* entries of trc20TransferInfo
I_match == [contract_address |-> USDT_HEX, amount |-> 2507000, to |-> MY_HEX]
I_upper == [contract_address |-> Upper(USDT_HEX), amount |-> 1000000, to |-> Upper(MY_HEX)]
I_out == [contract_address |-> USDT_HEX, amount |-> 1000000, to |-> OTHER_HEX]
I_small == [contract_address |-> USDT_HEX, amount |-> 999999, to |-> MY_HEX]
I_other == [contract_address |-> OTHER_HEX, amount |-> 2507000, to |-> MY_HEX]

\* transactions handle_tx can read
GoodTxs ==
  { [txID |-> "T1", raw_data |-> [contract |-> <<Contract("TransferContract", V_in_big)>>],
       trc20TransferInfo |-> <<I_upper, I_match>>],
    [txID |-> "T1", raw_data |-> [contract |-> <<Contract("TransferContract", V_in_small)>>],
       trc20TransferInfo |-> <<I_match>>],
    [txID |-> "T1", raw_data |-> [contract |-> <<Contract("TriggerSmartContract", EmptyDict)>>],
       trc20TransferInfo |-> <<I_other, I_out>>],
    [txID |-> "T1", raw_data |-> [contract |-> <<Contract("TransferContract", V_upper)>>],
       trc20TransferInfo |-> <<>>],
    [txID |-> "T2", raw_data |-> [contract |-> <<Contract("TransferContract", V_out_min)>>]],
    [txID |-> "T2", raw_data |-> [contract |-> <<Contract("TransferContract", EmptyDict)>>],
       trc20TransferInfo |-> <<I_small, EmptyDict>>] }

\* transactions whose shape handle_tx cannot read: no raw_data, no parameter
BadTxs ==
  { [txID |-> "T1"],
    [txID |-> "T2", raw_data |-> [contract |-> <<[type |-> "TransferContract"]>>]] }

\* a record without identifier
NoIdTx == [raw_data |-> [contract |-> <<Contract("TransferContract", V_in_big)>>]]

Txs == GoodTxs \cup BadTxs \cup {NoIdTx}

SeqsUpTo(S, n) == UNION {[1..m -> S] : m \in 0..n}

\* pages the provider can return
Pages == SeqsUpTo(Txs, MaxPage)

\* JSON bodies of the transaction endpoint: with or without the data field
Bodies == {[data |-> p] : p \in Pages} \cup {[success |-> FALSE]}

\* exception classes fetch_transactions can raise: asyncio.TimeoutError
\* (ClientTimeout), aiohttp.ClientConnectorError (connection),
\* aiohttp.ClientPayloadError (transport), aiohttp.ContentTypeError
\* (resp.json() on a body that is not served as JSON), json.JSONDecodeError
FetchErrors == {"TimeoutError", "ClientConnectorError", "ClientPayloadError",
                "ContentTypeError", "JSONDecodeError"}

\* rounded balances get_balance can return
Balances == {0, 1250}

\* ------------------------------------------------------- pure functions
\* fetch_transactions: `return data.get("data", [])`
PageOf(body) == Get(body, "data", <<>>)

\* `int(raw) / 1_000_000` as the exact fraction num/den
Scaled(raw) == [num |-> raw, den |-> SCALE]

\* variant of BelowMin: a transfer of exactly the minimum is suppressed too
BelowOrAtMin(amount, min) == amount.num <= min * amount.den

\* `amount < MIN_TRX`, `amount < MIN_USDT`
BelowMin(amount, min) == amount.num < min * amount.den

\* `{amount:.2f}`: hundredths, rounded to nearest
Fmt2(amount) == (2 * 100 * amount.num + amount.den) \div (2 * amount.den)

\* `"IN" if to_hex == MY_HEX else "OUT"` of the native branch
DirectionTrx(to_hex) == IF to_hex = MY_HEX THEN "IN" ELSE "OUT"

\* `"IN" if info.get("to", "").lower() == MY_HEX else "OUT"`
DirectionUsdt(info) == IF Lower(Get(info, "to", <<>>)) = MY_HEX THEN "IN" ELSE "OUT"

\* variant of IsUsdt: the contract address is compared as it is spelled
IsUsdtExact(info) == Get(info, "contract_address", <<>>) = USDT_HEX

\* `info.get("contract_address", "").lower() == USDT_HEX`
IsUsdt(info) == Lower(Get(info, "contract_address", <<>>)) = USDT_HEX

\* variant of AlreadySeen: the early return is never taken
AlreadySeenOff(txid, seen) == FALSE

\* `if txid in seen_tx: return`
AlreadySeen(txid, seen) == txid \in seen

\* the sub-records handle_tx iterates over:
\* `if "trc20TransferInfo" in tx and tx["trc20TransferInfo"]`
Infos(tx) == Get(tx, "trc20TransferInfo", <<>>)

\* amount of a sub-record
InfoAmount(info) == Scaled(Get(info, "amount", 0))

\* the sub-record reaches bot.send_message in notify_usdt
Notifies(info) == IsUsdt(info) /\ ~BelowMin(InfoAmount(info), MIN_USDT)

\* first sub-record at or after position from whose notification is sent; 0 if none
NextNotified(tx, from) ==
  LET ks == {k \in from..Len(Infos(tx)) : Notifies(Infos(tx)[k])}
  IN  IF ks = {} THEN 0 ELSE CHOOSE k \in ks : \A m \in ks : k <= m

\* tx["raw_data"]["contract"][0]["type"] can be read
TypeReadable(tx) ==
  /\ "raw_data" \in DOMAIN tx
  /\ "contract" \in DOMAIN tx.raw_data
  /\ Len(tx.raw_data.contract) >= 1
  /\ "type" \in DOMAIN tx.raw_data.contract[1]

\* tx["raw_data"]["contract"][0]["parameter"]["value"] can be read
ValueReadable(tx) ==
  /\ "parameter" \in DOMAIN tx.raw_data.contract[1]
  /\ "value" \in DOMAIN tx.raw_data.contract[1].parameter

CType(tx) == tx.raw_data.contract[1].type
Val(tx) == tx.raw_data.contract[1].parameter.value

\* aiohttp.ClientError and its subclasses
ClientErrors == {"ClientConnectorError", "ClientPayloadError", "ContentTypeError"}

\* variant of Handler: only the timeout is treated as a network failure
HandlerTimeoutOnly(e) == IF e = "TimeoutError" THEN "network" ELSE "bot"

\* the except clause of main() that catches exception class e
Handler(e) == IF e \in ClientErrors \cup {"TimeoutError"} THEN "network" ELSE "bot"

\* variant of SeedPrefix: only the newest record is remembered
SeedFirstOnly(p) ==
  IF p = <<>> \/ "txID" \notin DOMAIN Head(p) THEN <<>> ELSE <<Head(p).txID>>

\* startup: `for t in page: seen_tx.add(t["txID"])` stops at the first
\* record without txID (KeyError); the identifiers added before it stay
RECURSIVE SeedPrefix(_)
SeedPrefix(p) ==
  IF p = <<>> \/ "txID" \notin DOMAIN Head(p) THEN <<>>
  ELSE <<Head(p).txID>> \o SeedPrefix(Tail(p))

Range(f) == {f[i] : i \in DOMAIN f}


\* ----------------------------------------------------------- configuration
\* os.getenv of a name that is not set
None == "<None>"

\* the names the module requires
Required == {"TG_TOKEN", "CHAT_ID", "TRON_ADDR"}

\* values a name can be set to; CHAT_ID is a string of digits
EnvValues == [TG_TOKEN |-> {<<"t", "o", "k">>},
              CHAT_ID |-> {<<"0">>, <<"4", "2">>},
              TRON_ADDR |-> {<<"T", "J", "R">>}]

\* environments: each required name is set to one of its values, or not set
Envs == {e \in UNION {[D -> UNION {EnvValues[k] : k \in Required}] : D \in SUBSET Required} :
           \A k \in DOMAIN e : e[k] \in EnvValues[k]}

\* os.getenv(name)
GetEnv(e, name) == IF name \in DOMAIN e THEN e[name] ELSE None

DigitOf == [c \in {"0", "1", "2", "3", "4", "5", "6", "7", "8", "9"} |->
              CASE c = "0" -> 0 [] c = "1" -> 1 [] c = "2" -> 2 [] c = "3" -> 3
                [] c = "4" -> 4 [] c = "5" -> 5 [] c = "6" -> 6 [] c = "7" -> 7
                [] c = "8" -> 8 [] c = "9" -> 9]

\* int(s) of a string of digits
RECURSIVE IntOf(_)
IntOf(s) == IF s = <<>> THEN 0
            ELSE 10 * IntOf(SubSeq(s, 1, Len(s) - 1)) + DigitOf[s[Len(s)]]

\* variant of ConfigComplete: the bot token is not looked at
ConfigCompleteNoToken(tg, chat, addr) ==
  /\ chat # 0
  /\ addr # None /\ addr # <<>>

\* line 27: `all([TG_TOKEN, CHAT_ID, TRON_ADDR])`
ConfigComplete(tg, chat, addr) ==
  /\ tg # None /\ tg # <<>>
  /\ chat # 0
  /\ addr # None /\ addr # <<>>

\* ------------------------------------------------------------------ state
VARIABLES
  pc,           \* position of main(): the await it is suspended at
  seen_tx,      \* the module-level set of processed identifiers
  page,         \* the list the current `for t in await fetch_transactions()` walks
  idx,          \* position of that loop in page (1-based)
  sub,          \* position of handle_tx's loop over trc20TransferInfo
  bal,          \* the balance notify_trx has just read
  exc,          \* class of the exception main() is handling, "" if none
  polls,        \* iterations of `while True` started so far
  trace,        \* observable events of the current iteration (startup is iteration 0)
  delivered,    \* notifications (identifier, slot) delivered in earlier iterations;
                \* slot 0 is the TRX notification, slot k the k-th trc20 sub-record
  inserts,      \* how often each identifier was inserted into seen_tx
  startup_seen, \* seen_tx when the `while True` loop was entered
  env           \* the process environment (.env included): name -> value

vars == <<pc, seen_tx, page, idx, sub, bal, exc, polls, trace, delivered,
          inserts, startup_seen, env>>


\* an observable event
Ev(op, what, id, k, dir, amt, b) ==
  [op |-> op, what |-> what, id |-> id, k |-> k, dir |-> dir, amt |-> amt, bal |-> b]
EvFetch == Ev("fetch", "", "", 0, "", 0, 0)
EvRaise(e) == Ev("raise", e, "", 0, "", 0, 0)
EvEnter(i) == Ev("enter", "", "", i, "", 0, 0)
EvBalance(id, b) == Ev("balance", "", id, 0, "", 0, b)
EvSend(what, id, k, dir, amt, b) == Ev("send", what, id, k, dir, amt, b)
EvAdd(id) == Ev("add", "", id, 0, "", 0, 0)
EvNotice(class) == Ev("notice", class, "", 0, "", 0, 0)
EvSleep(n) == Ev("sleep", "", "", n, "", 0, 0)

Init ==
  /\ pc = "config"
  /\ env \in Envs
  /\ seen_tx = {}
  /\ page = <<>>
  /\ idx = 0
  /\ sub = 0
  /\ bal = 0
  /\ exc = ""
  /\ polls = 0
  /\ trace = <<>>
  /\ delivered = {}
  /\ inserts = [id \in TxIds |-> 0]
  /\ startup_seen = {}

\* the notifications (identifier, slot) a sequence of events delivered
SentSlots(tr) == {<<tr[i].id, tr[i].k>> : i \in {n \in DOMAIN tr : tr[n].op = "send"}}

\* identifiers of the records of a page that carry one
IdsOf(p) == {p[i].txID : i \in {n \in DOMAIN p : "txID" \in DOMAIN p[n]}}

\* ------------------------------------------------------------ module body
\* lines 13-34: the module reads its configuration.  int(None) raises
\* TypeError at line 16 when CHAT_ID is not set; line 28 raises RuntimeError
\* when a required value is missing or empty; only then asyncio.run(main())
LoadConfig ==
  /\ pc = "config"
  /\ pc' = IF GetEnv(env, "CHAT_ID") = None
           THEN "aborted"
           ELSE IF ~ConfigComplete(GetEnv(env, "TG_TOKEN"), IntOf(GetEnv(env, "CHAT_ID")),
                                   GetEnv(env, "TRON_ADDR"))
           THEN "aborted"
           ELSE "startup"
  /\ UNCHANGED <<seen_tx, page, idx, sub, bal, exc, polls, trace, delivered, inserts,
                 startup_seen, env>>

\* ---------------------------------------------------------------- startup
\* line 111: the startup fetch returns a body
StartupFetchOk ==
  /\ pc = "startup"
  /\ \E body \in Bodies : page' = PageOf(body)
  /\ pc' = "seed"
  /\ trace' = <<EvFetch>>
  /\ UNCHANGED <<seen_tx, idx, sub, bal, exc, polls, delivered, inserts, startup_seen, env>>

\* lines 111, 113-114: the startup fetch raises; `except Exception: pass`
StartupFetchFail ==
  /\ pc = "startup"
  /\ \E e \in FetchErrors : trace' = <<EvFetch, EvRaise(e)>>
  /\ pc' = "while"
  /\ UNCHANGED <<seen_tx, page, idx, sub, bal, exc, polls, delivered, inserts, startup_seen, env>>

\* variant of StartupSeed: a failed seeding starts from an empty history
StartupSeedDiscards ==
  /\ pc = "seed"
  /\ LET ids == SeedPrefix(page)
         kept == IF Len(ids) < Len(page) THEN {} ELSE Range(ids)
     IN  /\ seen_tx' = seen_tx \cup kept
         /\ inserts' = [id \in TxIds |-> IF id \in kept \ seen_tx THEN inserts[id] + 1
                                          ELSE inserts[id]]
         /\ trace' = trace \o [i \in 1..Len(ids) |-> EvAdd(ids[i])]
                           \o (IF Len(ids) < Len(page) THEN <<EvRaise("LookupError")>> ELSE <<>>)
  /\ pc' = "while"
  /\ UNCHANGED <<page, idx, sub, bal, exc, polls, delivered, startup_seen, env>>

\* lines 111-114: the seeding loop; a record without txID raises KeyError,
\* which `except Exception: pass` absorbs
StartupSeed ==
  /\ pc = "seed"
  /\ LET ids == SeedPrefix(page)
         new == Range(ids) \ seen_tx
     IN  /\ seen_tx' = seen_tx \cup Range(ids)
         /\ inserts' = [id \in TxIds |-> IF id \in new THEN inserts[id] + 1 ELSE inserts[id]]
         /\ trace' = trace \o [i \in 1..Len(ids) |-> EvAdd(ids[i])]
                           \o (IF Len(ids) < Len(page) THEN <<EvRaise("LookupError")>> ELSE <<>>)
  /\ pc' = "while"
  /\ UNCHANGED <<page, idx, sub, bal, exc, polls, delivered, startup_seen, env>>

\* ------------------------------------------------------------ driver loop
\* variant of WhileTrue: every iteration starts with an empty seen_tx
WhileTrueForgets ==
  /\ pc = "while"
  /\ polls < MaxPolls
  /\ pc' = "poll"
  /\ polls' = polls + 1
  /\ startup_seen' = IF polls = 0 THEN seen_tx ELSE startup_seen
  /\ delivered' = delivered \cup SentSlots(trace)
  /\ trace' = <<>>
  /\ page' = <<>>
  /\ idx' = 0
  /\ sub' = 0
  /\ bal' = 0
  /\ exc' = ""
  /\ seen_tx' = {}
  /\ UNCHANGED <<inserts, env>>

\* line 116: the head of `while True`; a new iteration begins.  The events
\* of the iteration that ended are folded into the bookkeeping.
WhileTrue ==
  /\ pc = "while"
  /\ polls < MaxPolls
  /\ pc' = "poll"
  /\ polls' = polls + 1
  /\ startup_seen' = IF polls = 0 THEN seen_tx ELSE startup_seen
  /\ delivered' = delivered \cup SentSlots(trace)
  /\ trace' = <<>>
  /\ page' = <<>>
  /\ idx' = 0
  /\ sub' = 0
  /\ bal' = 0
  /\ exc' = ""
  /\ UNCHANGED <<seen_tx, inserts, env>>

\* variant of Raise: the failed iteration fetches again at once
RaiseRetry(e, tr) ==
  /\ pc' = "poll"
  /\ exc' = e
  /\ trace' = Append(tr, EvRaise(e))

\* an exception of class e leaves the try block of `while True`:
\* lines 121 / 124 choose the notice
Raise(e, tr) ==
  /\ pc' = IF Handler(e) = "network" THEN "net_notice" ELSE "bot_notice"
  /\ exc' = e
  /\ trace' = Append(tr, EvRaise(e))

\* line 118: the steady-state fetch returns a body
PollFetchOk ==
  /\ pc = "poll"
  /\ \E body \in Bodies : page' = PageOf(body)
  /\ idx' = 1
  /\ pc' = "loop"
  /\ trace' = <<EvFetch>>
  /\ UNCHANGED <<seen_tx, sub, bal, exc, polls, delivered, inserts, startup_seen, env>>

\* line 118: the steady-state fetch raises
PollFetchFail ==
  /\ pc = "poll"
  /\ \E e \in FetchErrors : Raise(e, <<EvFetch>>)
  /\ UNCHANGED <<seen_tx, page, idx, sub, bal, polls, delivered, inserts, startup_seen, env>>

\* variant of Tokens: handle_tx returns without `seen_tx.add(txid)`
TokensNoAdd(tx, from, tr) ==
  LET k == NextNotified(tx, from)
  IN  IF k = 0
      THEN /\ idx' = idx + 1
           /\ sub' = 0
           /\ pc' = "loop"
           /\ trace' = tr
           /\ UNCHANGED <<seen_tx, inserts, exc>>
      ELSE /\ pc' = "send_usdt"
           /\ sub' = k
           /\ trace' = tr
           /\ UNCHANGED <<seen_tx, inserts, idx, exc>>

\* lines 97-105 from sub-record `from` on: run to the next send_message of
\* notify_usdt, or to `seen_tx.add(txid)` and back to main's for loop
Tokens(tx, from, tr) ==
  LET k == NextNotified(tx, from)
  IN  IF k = 0
      THEN /\ seen_tx' = seen_tx \cup {tx.txID}
           /\ inserts' = [inserts EXCEPT ![tx.txID] = IF tx.txID \in seen_tx THEN @ ELSE @ + 1]
           /\ idx' = idx + 1
           /\ sub' = 0
           /\ pc' = "loop"
           /\ exc' = exc
           /\ trace' = Append(tr, EvAdd(tx.txID))
      ELSE /\ pc' = "send_usdt"
           /\ sub' = k
           /\ trace' = tr
           /\ UNCHANGED <<seen_tx, inserts, idx, exc>>

\* lines 119, 82-95: handle_tx(page[idx]) up to its first await
HandleTx ==
  /\ pc = "loop"
  /\ idx <= Len(page)
  /\ LET tx == page[idx]
         tr == Append(trace, EvEnter(idx))
     IN  IF "txID" \notin DOMAIN tx
         THEN Raise("LookupError", tr) /\ UNCHANGED <<seen_tx, inserts, idx, sub>>
         ELSE IF AlreadySeen(tx.txID, seen_tx)
         THEN /\ idx' = idx + 1
              /\ trace' = tr
              /\ UNCHANGED <<pc, seen_tx, inserts, sub, exc>>
         ELSE IF ~TypeReadable(tx)
         THEN Raise("LookupError", tr) /\ UNCHANGED <<seen_tx, inserts, idx, sub>>
         ELSE IF CType(tx) = "TransferContract"
         THEN IF ~ValueReadable(tx)
              THEN Raise("LookupError", tr) /\ UNCHANGED <<seen_tx, inserts, idx, sub>>
              ELSE IF BelowMin(Scaled(Get(Val(tx), "amount", 0)), MIN_TRX)
              THEN Tokens(tx, 1, tr)
              ELSE /\ pc' = "balance"
                   /\ trace' = tr
                   /\ UNCHANGED <<seen_tx, inserts, idx, sub, exc>>
         ELSE Tokens(tx, 1, tr)
  /\ UNCHANGED <<page, bal, polls, delivered, startup_seen, env>>

\* line 61 / 43-44: the balance query returns
GetBalanceOk ==
  /\ pc = "balance"
  /\ \E b \in Balances :
       /\ bal' = b
       /\ trace' = Append(trace, EvBalance(page[idx].txID, b))
  /\ pc' = "send_trx"
  /\ UNCHANGED <<seen_tx, page, idx, sub, exc, polls, delivered, inserts, startup_seen, env>>

\* variant of GetBalanceFail: the failure is swallowed and the notification
\* goes out with the balance read last
GetBalanceFailIgnored ==
  /\ pc = "balance"
  /\ pc' = "send_trx"
  /\ UNCHANGED <<seen_tx, page, idx, sub, bal, exc, polls, trace, delivered, inserts,
                 startup_seen, env>>

\* line 61: the balance query raises (an exception class of the provider
\* client: neither aiohttp.ClientError nor asyncio.TimeoutError)
GetBalanceFail ==
  /\ pc = "balance"
  /\ Raise("TronError", trace)
  /\ UNCHANGED <<seen_tx, page, idx, sub, bal, polls, delivered, inserts, startup_seen, env>>

\* lines 62-70: the TRX notification is delivered; handle_tx goes on at line 97
SendTrxOk ==
  /\ pc = "send_trx"
  /\ LET tx == page[idx]
         amount == Scaled(Get(Val(tx), "amount", 0))
         direction == DirectionTrx(Get(Val(tx), "to_address", <<>>))
     IN  Tokens(tx, 1, Append(trace, EvSend("TRX", tx.txID, 0, direction, Fmt2(amount), bal)))
  /\ UNCHANGED <<page, bal, polls, delivered, startup_seen, env>>

\* lines 68-70: delivery of the TRX notification raises (telegram.error
\* classes: neither aiohttp.ClientError nor asyncio.TimeoutError)
SendTrxFail ==
  /\ pc = "send_trx"
  /\ Raise("TelegramError", trace)
  /\ UNCHANGED <<seen_tx, page, idx, sub, bal, polls, delivered, inserts, startup_seen, env>>

\* lines 75-79: the USDT notification of sub-record sub is delivered; the
\* loop of line 99 goes on
SendUsdtOk ==
  /\ pc = "send_usdt"
  /\ LET tx == page[idx]
         info == Infos(tx)[sub]
     IN  Tokens(tx, sub + 1,
                Append(trace, EvSend("USDT", tx.txID, sub, DirectionUsdt(info),
                                     Fmt2(InfoAmount(info)), 0)))
  /\ UNCHANGED <<page, bal, polls, delivered, startup_seen, env>>

\* variant of SendUsdtFail: the transaction is marked as seen although its
\* notification was not delivered
SendUsdtFailMarksSeen ==
  /\ pc = "send_usdt"
  /\ Raise("TelegramError", trace)
  /\ seen_tx' = seen_tx \cup {page[idx].txID}
  /\ UNCHANGED <<page, idx, sub, bal, polls, delivered, inserts, startup_seen, env>>

\* lines 77-79: delivery of the USDT notification raises
SendUsdtFail ==
  /\ pc = "send_usdt"
  /\ Raise("TelegramError", trace)
  /\ UNCHANGED <<seen_tx, page, idx, sub, bal, polls, delivered, inserts, startup_seen, env>>

\* lines 118-120: the for loop is exhausted
LoopDone ==
  /\ pc = "loop"
  /\ idx > Len(page)
  /\ pc' = "sleep15"
  /\ UNCHANGED <<seen_tx, page, idx, sub, bal, exc, polls, trace, delivered, inserts,
                 startup_seen, env>>

\* line 120: `await asyncio.sleep(15)`
Sleep15 ==
  /\ pc = "sleep15"
  /\ pc' = "while"
  /\ trace' = Append(trace, EvSleep(SLEEP_OK))
  /\ UNCHANGED <<seen_tx, page, idx, sub, bal, exc, polls, delivered, inserts, startup_seen, env>>

\* lines 122 / 125: the error notice is delivered
NoticeOk ==
  /\ pc \in {"net_notice", "bot_notice"}
  /\ trace' = Append(trace, EvNotice(IF pc = "net_notice" THEN "network" ELSE "bot"))
  /\ pc' = "sleep30"
  /\ UNCHANGED <<seen_tx, page, idx, sub, bal, exc, polls, delivered, inserts, startup_seen, env>>

\* lines 122 / 125: bot.send_message raises inside the except clause; nothing
\* catches it, main() and asyncio.run() end with that exception
NoticeFail ==
  /\ pc \in {"net_notice", "bot_notice"}
  /\ trace' = Append(trace, EvRaise("TelegramError"))
  /\ pc' = "crashed"
  /\ UNCHANGED <<seen_tx, page, idx, sub, bal, exc, polls, delivered, inserts, startup_seen, env>>

\* lines 123 / 126: `await asyncio.sleep(30)`
Sleep30 ==
  /\ pc = "sleep30"
  /\ pc' = "while"
  /\ trace' = Append(trace, EvSleep(SLEEP_ERR))
  /\ UNCHANGED <<seen_tx, page, idx, sub, bal, exc, polls, delivered, inserts, startup_seen, env>>

Next ==
  \/ LoadConfig
  \/ StartupFetchOk
  \/ StartupFetchFail
  \/ StartupSeed
  \/ WhileTrue
  \/ PollFetchOk
  \/ PollFetchFail
  \/ HandleTx
  \/ GetBalanceOk
  \/ GetBalanceFail
  \/ SendTrxOk
  \/ SendTrxFail
  \/ SendUsdtOk
  \/ SendUsdtFail
  \/ LoopDone
  \/ Sleep15
  \/ NoticeOk
  \/ NoticeFail
  \/ Sleep30

Spec == Init /\ [][Next]_vars

\* ------------------------------------------------------- reading a trace
\* positions of the events of tr that satisfy op/what
Pos(tr, op, what) == {n \in DOMAIN tr : tr[n].op = op /\ tr[n].what = what}
PosOp(tr, op) == {n \in DOMAIN tr : tr[n].op = op}

\* page positions whose handle_tx call has started in this iteration
Entered == {trace[n].k : n \in PosOp(trace, "enter")}

\* the events of handle_tx(page[i]): from its entry to the next entry
Segment(i) ==
  LET first == CHOOSE n \in PosOp(trace, "enter") : trace[n].k = i
      later == {n \in PosOp(trace, "enter") : n > first}
      last  == IF later = {} THEN Len(trace) ELSE (CHOOSE n \in later : \A m \in later : n <= m) - 1
  IN  SubSeq(trace, first + 1, last)

\* handle_tx(page[i]) ran to `seen_tx.add(txid)`
Completed(i) == i \in Entered /\ PosOp(Segment(i), "add") # {}

\* the startup try block raised
StartupRaised == polls = 0 /\ PosOp(trace, "raise") # {}

\* page[i] is a native transfer whose amount and destination can be read
IsNative(i) ==
  /\ "txID" \in DOMAIN page[i]
  /\ TypeReadable(page[i])
  /\ page[i].raw_data.contract[1].type = "TransferContract"
  /\ ValueReadable(page[i])

\* ------------------------------------------------------------------ claims
\* C1: every notification of a transaction identifier (its TRX notification,
\* the notification of its k-th token sub-record) is delivered at most once
\* in the life of the process, also when fetch, balance query or delivery
\* fail, and an identifier is inserted into seen_tx at most once.
C1_AtMostOnce ==
  /\ Cardinality(PosOp(trace, "send")) = Cardinality(SentSlots(trace))
  /\ SentSlots(trace) \cap delivered = {}
  /\ \A id \in TxIds : inserts[id] <= 1

\* C2: once `while True` is entered no failure ends it; the state in which
\* main() has ended is unreachable.
C2_LoopNeverStops == pc # "crashed"

C4_FailedStartupIsEmpty ==
  StartupRaised =>
    /\ pc = "while"
    /\ PosOp(trace, "notice") \cup PosOp(trace, "send") = {}
    /\ seen_tx = {}

\* C4 amended: a failure during startup sends no notice and does not end the
\* process; the loop is entered with seen_tx holding exactly the identifiers
\* that were seeded before the failure: none if the fetch failed, those of
\* the records before the first unreadable record otherwise.
C4_FailedStartupKeepsPrefix ==
  StartupRaised =>
    /\ pc = "while"
    /\ exc = ""
    /\ PosOp(trace, "notice") \cup PosOp(trace, "send") = {}
    /\ trace[Len(trace)].op = "raise"
    /\ seen_tx = {trace[n].id : n \in PosOp(trace, "add")}
    /\ Cardinality(PosOp(trace, "add")) = Len(trace) - 2
    /\ \A n \in PosOp(trace, "add") : page[n - 1].txID = trace[n].id
    /\ page = <<>> => seen_tx = {}

\* C4 witness: seeding failed at the second record, the first one is kept
C4_Witness ==
  /\ StartupRaised
  /\ pc = "while"
  /\ Len(page) = 2
  /\ seen_tx = {"T2"}

\* C5: when handle_tx has processed an unseen native transfer, it has sent
\* exactly one TRX notification with the amount raw/1,000,000 (two decimals)
\* and the direction of the destination if raw/1,000,000 >= MIN_TRX, and no
\* TRX notification if it is below, and the identifier is in seen_tx; a
\* suppressed transfer never gets a TRX notification or a balance query.
C5_NativeThreshold ==
  \A i \in Entered :
    IsNative(i) =>
      LET tx   == page[i]
          seg  == Segment(i)
          v    == tx.raw_data.contract[1].parameter.value
          raw  == IF "amount" \in DOMAIN v THEN v.amount ELSE 0
          dest == IF "to_address" \in DOMAIN v THEN v.to_address ELSE <<>>
          sent == Pos(seg, "send", "TRX")
      IN  /\ raw < MIN_TRX * 1000000 =>
                sent \cup PosOp(seg, "balance") = {}
          /\ Completed(i) =>
                /\ tx.txID \in seen_tx
                /\ raw >= MIN_TRX * 1000000 =>
                      /\ Cardinality(sent) = 1
                      /\ \A n \in sent :
                            /\ seg[n].id = tx.txID
                            /\ seg[n].amt = (raw + 5000) \div 10000
                            /\ seg[n].dir = IF dest = MY_HEX THEN "IN" ELSE "OUT"

\* C5 witness: one poll processed a suppressed native transfer (0.999999)
\* and then a notified one (exactly 1.0 -> "1.00", outgoing)
C5_Witness ==
  /\ polls >= 1
  /\ Completed(1) /\ Completed(2)
  /\ IsNative(1) /\ IsNative(2)
  /\ Val(page[1]) = V_in_small
  /\ Val(page[2]) = V_out_min
  /\ \E n \in Pos(Segment(2), "send", "TRX") :
        Segment(2)[n].amt = 100 /\ Segment(2)[n].dir = "OUT"

\* C6: when handle_tx has processed an unseen transaction, each token
\* sub-record whose contract address equals the tracked contract up to case
\* and whose amount raw/1,000,000 is at least MIN_USDT has got exactly one
\* USDT notification; a sub-record with another contract address never gets
\* one, whatever its amount.
C6_TokenNotification ==
  \A i \in Entered :
    "txID" \in DOMAIN page[i] =>
      LET tx    == page[i]
          seg   == Segment(i)
          infos == IF "trc20TransferInfo" \in DOMAIN tx THEN tx.trc20TransferInfo ELSE <<>>
          addr(k) == IF "contract_address" \in DOMAIN infos[k]
                     THEN infos[k].contract_address ELSE <<>>
          raw(k)  == IF "amount" \in DOMAIN infos[k] THEN infos[k].amount ELSE 0
          same(k) == Upper(addr(k)) = Upper(USDT_HEX)
          sent(k) == {n \in Pos(seg, "send", "USDT") : seg[n].k = k}
      IN  /\ \A n \in Pos(seg, "send", "USDT") :
                /\ seg[n].k \in DOMAIN infos
                /\ seg[n].id = tx.txID
                /\ same(seg[n].k)
          /\ Completed(i) =>
                \A k \in DOMAIN infos :
                  Cardinality(sent(k)) = IF same(k) /\ raw(k) >= MIN_USDT * 1000000 THEN 1 ELSE 0

\* C6 witness: a processed transaction whose first sub-record names the
\* tracked contract in upper case and whose second names it in lower case
C6_Witness ==
  /\ polls >= 1
  /\ Completed(1)
  /\ "trc20TransferInfo" \in DOMAIN page[1]
  /\ page[1].trc20TransferInfo = <<I_upper, I_match>>
  /\ \E n \in Pos(Segment(1), "send", "USDT") : Segment(1)[n].k = 1
  /\ \E n \in Pos(Segment(1), "send", "USDT") : Segment(1)[n].k = 2

\* C7: handle_tx of a transaction whose identifier is in seen_tx does
\* nothing: no notification, no balance query, no classification (so an
\* unreadable record does not raise), seen_tx unchanged; main's loop is
\* just one record further.
C7_SeenIsNoOp ==
  [][ ( /\ pc = "loop"
        /\ idx <= Len(page)
        /\ "txID" \in DOMAIN page[idx]
        /\ page[idx].txID \in seen_tx )
      => ( /\ pc' = "loop"
           /\ idx' = idx + 1
           /\ seen_tx' = seen_tx
           /\ inserts' = inserts
           /\ exc' = exc
           /\ trace' = Append(trace, EvEnter(idx)) ) ]_vars

\* C7 witness: a seen record without raw_data has been skipped
C7_Witness ==
  /\ pc = "loop"
  /\ idx = 2
  /\ page[1] = [txID |-> "T1"]
  /\ "T1" \in seen_tx
  /\ trace = <<EvFetch, EvEnter(1)>>

\* C8: a transaction that was notified in an earlier poll is not notified
\* again when a later poll returns its identifier once more: over two (or
\* more) polls that return it, it is notified once.
C8_NotifiedOnce ==
  \A n \in PosOp(trace, "send") : \A s \in delivered : s[1] # trace[n].id

\* C9 as stated: the notice is "network error" exactly when the fetch failed
\* by timeout, connection failure or transport failure, and "bot error" for
\* every other failure, a malformed response included.
C9_NetworkNoticeIffNetworkFailure ==
  pc \in {"net_notice", "bot_notice"} =>
    (pc = "net_notice" <=>
       /\ trace = <<EvFetch, EvRaise(exc)>>
       /\ exc \in {"TimeoutError", "ClientConnectorError", "ClientPayloadError"})

\* C9 amended: the notice is "network error" exactly when the fetch raised
\* asyncio.TimeoutError or an aiohttp.ClientError, which covers timeout,
\* connection failure, transport failure and a response that is not served
\* as JSON; every other failure gets "bot error".
C9_NetworkNoticeIffClientError ==
  /\ pc \in {"net_notice", "bot_notice"} =>
       (pc = "net_notice" <=>
          /\ trace = <<EvFetch, EvRaise(exc)>>
          /\ exc \in {"TimeoutError", "ClientConnectorError", "ClientPayloadError",
                      "ContentTypeError"})
  /\ \A n \in PosOp(trace, "notice") :
       /\ n > 1
       /\ trace[n - 1].op = "raise"
       /\ trace[n].what = IF n = 3 /\ trace[n - 1].what \in
                               {"TimeoutError", "ClientConnectorError", "ClientPayloadError",
                                "ContentTypeError"}
                          THEN "network" ELSE "bot"

\* C9 witness: the "network error" notice for a response that is not JSON
C9_Witness ==
  /\ pc = "sleep30"
  /\ trace = <<EvFetch, EvRaise("ContentTypeError"), EvNotice("network")>>

\* C10: an iteration whose fetch timed out sends one "network error"
\* notice and nothing else, pauses 30 and only 30, and comes back to the
\* loop head; the process does not end.
C10_TimeoutBackoff ==
  (polls > 0 /\ Len(trace) >= 2 /\ trace[2] = EvRaise("TimeoutError")) =>
    /\ pc \in {"net_notice", "sleep30", "while"}
    /\ pc = "sleep30" => trace = <<EvFetch, EvRaise("TimeoutError"), EvNotice("network")>>
    /\ pc = "while" => trace = <<EvFetch, EvRaise("TimeoutError"), EvNotice("network"),
                                 EvSleep(30)>>

\* C11: every notification, of a native transfer or of a token sub-record,
\* says "IN" exactly when the destination address of that transfer is equal
\* to MY_HEX as it is spelled, and "OUT" otherwise: one test for both flows.
C11_DirectionByExactEquality ==
  \A i \in Entered :
    "txID" \in DOMAIN page[i] =>
      \A n \in PosOp(Segment(i), "send") :
        LET e    == Segment(i)[n]
            v    == page[i].raw_data.contract[1].parameter.value
            info == page[i].trc20TransferInfo[e.k]
            dest == IF e.what = "TRX"
                    THEN (IF "to_address" \in DOMAIN v THEN v.to_address ELSE <<>>)
                    ELSE (IF "to" \in DOMAIN info THEN info.to ELSE <<>>)
        IN  e.dir = IF dest = MY_HEX THEN "IN" ELSE "OUT"

\* C12: seen_tx only grows: over every step (seeding, processing, threshold
\* suppression, failure, backoff) the set after the step contains the set
\* before it.
C12_SeenGrows == [][seen_tx \subseteq seen_tx']_vars

\* C12 witness: both identifiers are in seen_tx, one of them was not there
\* when the loop was entered, and the iteration that just ended was a failed
\* one that went through the backoff
C12_Witness ==
  /\ pc = "while"
  /\ polls = 2
  /\ seen_tx = {"T1", "T2"}
  /\ startup_seen = {"T1"}
  /\ trace # <<>>
  /\ trace[Len(trace)] = EvSleep(30)

\* C13: when a required configuration value (TG_TOKEN, CHAT_ID, TRON_ADDR)
\* is not set the process ends before startup: no fetch, no balance query,
\* no message, and the driver loop is never entered.
C13_MissingConfigAborts ==
  Required \ DOMAIN env # {} =>
    /\ pc \in {"config", "aborted"}
    /\ trace = <<>>
    /\ polls = 0
    /\ seen_tx = {}
    /\ delivered = {}

\* C13 witness: only the bot token is missing and the process has ended
C13_Witness ==
  /\ pc = "aborted"
  /\ Required \ DOMAIN env = {"TG_TOKEN"}

\* C14: within one poll the records are examined one after the other in
\* the order of the page; when the next record is examined, the one before
\* it is in seen_tx and all its notifications have been delivered, the add
\* being the last event of its processing; the TRX notification of a
\* transaction comes before its USDT notifications, and these follow the
\* order of the sub-records.
C14_SequentialInOrder ==
  [](polls > 0 =>
       /\ \A n \in PosOp(trace, "enter") :
             trace[n].k = Cardinality({m \in PosOp(trace, "enter") : m <= n})
       /\ \A i \in Entered :
             LET seg   == Segment(i)
                 sends == PosOp(seg, "send")
             IN  /\ i + 1 \in Entered =>
                       /\ "txID" \in DOMAIN page[i]
                       /\ page[i].txID \in seen_tx
                       /\ seg # <<>> => seg[Len(seg)] = EvAdd(page[i].txID)
                 /\ \A a \in PosOp(seg, "add") :
                       /\ seg[a].id = page[i].txID
                       /\ \A n \in sends \cup PosOp(seg, "balance") : n < a
                 /\ \A n \in sends : seg[n].id = page[i].txID
                 /\ \A n, m \in sends :
                       n < m => \/ seg[n].what = "TRX" /\ seg[m].what = "USDT"
                                \/ /\ seg[n].what = "USDT" /\ seg[m].what = "USDT"
                                   /\ seg[n].k < seg[m].k)

\* C14 witness: a transaction with a TRX notification and two USDT
\* notifications was processed, and the next record of the page is examined
C14_Witness ==
  /\ polls > 0
  /\ 2 \in Entered
  /\ Len(Segment(1)) = 5
  /\ Segment(1)[2].what = "TRX"
  /\ Segment(1)[3].what = "USDT" /\ Segment(1)[3].k = 1
  /\ Segment(1)[4].what = "USDT" /\ Segment(1)[4].k = 2
  /\ Segment(1)[5] = EvAdd("T1")

\* C15: balance queries and TRX notifications that pass the threshold go
\* together: each TRX notification comes right after its own balance query
\* and shows the value that query returned; a balance query is the first
\* await of an unseen native transfer at or above MIN_TRX and of nothing else
\* (no suppressed transfer, no token notification, no seen transaction, not
\* during startup), and is followed by that TRX notification unless the
\* delivery raises; when the balance query raises, no TRX notification of
\* that transaction is delivered.
C15_BalancePerNativeNotification ==
  [](/\ polls = 0 => PosOp(trace, "balance") = {}
     /\ \A n \in Pos(trace, "send", "TRX") :
           /\ n > 1
           /\ trace[n - 1].op = "balance"
           /\ trace[n - 1].id = trace[n].id
           /\ trace[n - 1].bal = trace[n].bal
     /\ \A n \in PosOp(trace, "balance") :
           /\ n > 1
           /\ trace[n - 1].op = "enter"
           /\ IsNative(trace[n - 1].k)
           /\ LET v == page[trace[n - 1].k].raw_data.contract[1].parameter.value
              IN  "amount" \in DOMAIN v /\ v.amount >= MIN_TRX * 1000000
           /\ page[trace[n - 1].k].txID = trace[n].id
           /\ \/ n = Len(trace) /\ pc = "send_trx"
              \/ n < Len(trace) /\ trace[n + 1].op = "raise"
              \/ n < Len(trace) /\ trace[n + 1].op = "send" /\ trace[n + 1].what = "TRX"
     /\ \A n \in Pos(trace, "raise", "TronError") :
           /\ trace[n - 1].op = "enter"
           /\ \A m \in DOMAIN trace : m > n => trace[m].op \notin {"send", "balance", "add"})

\* C15 witness: two native transfers notified in one poll, each with the
\* balance of its own query
C15_Witness ==
  /\ polls > 0
  /\ Cardinality(PosOp(trace, "balance")) = 2
  /\ \E n, m \in Pos(trace, "send", "TRX") :
        n < m /\ trace[n].bal = 1250 /\ trace[m].bal = 0

\* C16: nothing is retried inside an iteration.  After a step of a poll has
\* raised, that iteration examines no further record, repeats no fetch,
\* balance query or notification, and only sends the notice and pauses; the
\* next attempt is the fetch of the next iteration.
C16_NoRetryInIteration ==
  [](polls > 0 =>
       /\ PosOp(trace, "fetch") \subseteq {1}
       /\ \A n \in PosOp(trace, "raise") :
             /\ pc \in {"net_notice", "bot_notice", "sleep30", "while", "crashed"}
             /\ \A m \in DOMAIN trace : m > n => trace[m].op \in {"raise", "notice", "sleep"}
             /\ \A i \in Entered : i <= Cardinality(PosOp(SubSeq(trace, 1, n), "enter"))
       /\ Cardinality(PosOp(trace, "notice")) <= 1
       /\ Cardinality(PosOp(trace, "sleep")) <= 1)

\* C16 witness: the first of two records failed; the second one, unseen and
\* well-formed, was not examined before the backoff ended
C16_Witness ==
  /\ pc = "while"
  /\ polls > 0
  /\ Len(page) = 2
  /\ page[2] \in GoodTxs
  /\ page[2].txID \notin seen_tx
  /\ trace = <<EvFetch, EvEnter(1), EvRaise("LookupError"), EvNotice("bot"), EvSleep(30)>>

\* C17: an iteration that reaches the next fetch has paused exactly once, as
\* its last step: for 15 exactly when every record of its page was processed
\* and nothing raised (so no error notice went out), for 30 exactly when
\* something raised, right after the error notice; a fetch that returns no
\* record is a successful iteration without any notification.
C17_OnePausePerIteration ==
  /\ pc \in {"sleep15", "sleep30"} => PosOp(trace, "sleep") = {}
  /\ pc = "poll" => trace = <<>>
  /\ (pc = "while" /\ polls > 0) =>
        LET last   == trace[Len(trace)]
            raised == PosOp(trace, "raise") # {}
            all    == \A i \in DOMAIN page : i \in Entered /\ page[i].txID \in seen_tx
        IN  /\ PosOp(trace, "sleep") = {Len(trace)}
            /\ trace[1] = EvFetch
            /\ last.k \in {15, 30}
            /\ last.k = 15 <=> (~raised /\ all /\ PosOp(trace, "notice") = {})
            /\ last.k = 30 <=> (raised /\ PosOp(trace, "notice") = {Len(trace) - 1})
            /\ (page = <<>> /\ ~raised) => trace = <<EvFetch, EvSleep(15)>>

\* C17 witness: the first record was processed, the second one failed, and
\* the iteration ended with the notice and the pause of 30
C17_Witness ==
  /\ pc = "while"
  /\ polls > 0
  /\ Len(page) = 2
  /\ Completed(1)
  /\ 2 \in Entered
  /\ PosOp(trace, "raise") # {}
  /\ trace[Len(trace)] = EvSleep(30)

\* C18: a transaction whose processing raised (unreadable shape, balance
\* query, delivery) is not in seen_tx when its iteration ends, and has not
\* been added by it, while every record before it in the page is in seen_tx;
\* seen_tx is the same when the next page is walked, where a record that is
\* in seen_tx is skipped and one that is not is processed from the start.
C18_FailedTxStaysUnseen ==
  /\ [](polls > 0 =>
          \A n \in PosOp(trace, "raise") :
            LET i == Cardinality(PosOp(SubSeq(trace, 1, n), "enter"))
            IN  (i >= 1 /\ trace[n - 1].op # "raise") =>
                  /\ "txID" \in DOMAIN page[i] => ~(page[i].txID \in seen_tx)
                  /\ PosOp(Segment(i), "add") = {}
                  /\ \A j \in 1..(i - 1) : page[j].txID \in seen_tx)
  /\ [][ /\ pc \in {"sleep30", "while", "poll"} => seen_tx' = seen_tx
         /\ (pc = "loop" /\ idx <= Len(page) /\ "txID" \in DOMAIN page[idx]) =>
               IF page[idx].txID \in seen_tx
               THEN pc' = "loop" /\ idx' = idx + 1 /\ seen_tx' = seen_tx
               ELSE ~(pc' = "loop" /\ seen_tx' = seen_tx) ]_vars

\* C18 witness: the first record was processed and added, the delivery of a
\* notification of the second one raised, and the iteration has ended
C18_Witness ==
  /\ pc = "while"
  /\ polls > 0
  /\ Len(page) = 2
  /\ Completed(1)
  /\ Pos(trace, "raise", "TelegramError") # {}
  /\ PosOp(Segment(2), "send") # {}
  /\ page[1].txID \in seen_tx \ startup_seen
  /\ page[2].txID \notin seen_tx

====
